---- MODULE Spec2Model ----
(***************************************************************************)
(* Word-embedding lookup, similarity ranking and analogy solving of the    *)
(* notebook 03A_NLP.ipynb: the normalisation of the embedding matrix, the  *)
(* word -> row index, similarity_score, closest_to_vector, most_similar,   *)
(* solve_analogy and convert_line_to_example.                              *)
(*                                                                         *)
(* Numbers.  A float is a record [nan, val].  Raw embedding entries are    *)
(* integers (val in units of 1).  Normalised entries and query vectors are *)
(* fixed-point with val in units of 1/Unit, dot products of two such       *)
(* vectors have val in units of 1/(Unit*Unit).  Unit is the least common   *)
(* multiple of the row norms of the vector pools, so every division the    *)
(* model performs is exact; rounding of float32 is not modelled.  0/0 is   *)
(* NaN and NaN propagates through arithmetic, as in IEEE 754.              *)
(***************************************************************************)
EXTENDS Integers, Sequences, FiniteSets, TLC

VARIABLES english_words, english_embeddings, normalized_embeddings, index,
          pc, call,
          all_words, all_embeddings,
          dataset, train, test, epoch, batch, steps, fed, last, printed

\* the embedding file as read: the words of all languages and their rows
source == <<all_words, all_embeddings>>

\* the state of the sentiment training cells
training == <<dataset, train, test, epoch, batch, steps, fed, last, printed>>

vars == <<english_words, english_embeddings, normalized_embeddings, index,
          pc, call, source, training>>

(***************************************************************************)
(* Bounds and input pools                                                  *)
(***************************************************************************)
\* largest vocabulary size V of the small vocabularies
MaxV == 3
\* rows of the large vocabularies beyond the ten that solve_analogy asks for
MaxExtra == 1
\* largest positive factor a query is scaled by
MaxK == 3
\* largest number of words of a review line
MaxLineLen == 2

\* the n that solve_analogy passes to closest_to_vector
AnalogyN == 10

WordPool == {"cat", "dog"}

\* raw (unnormalised) rows of the small vocabularies; every norm is an integer
Vectors == { <<0, 0>>, <<1, 0>>, <<4, 3>> }

\* raw rows of the large vocabularies: twelve distinct directions, no zero row
BigRows == << <<1, 0>>, <<4, 3>>, <<3, 4>>, <<0, 1>>, <<-3, 4>>, <<-4, 3>>,
              <<-1, 0>>, <<-4, -3>>, <<-3, -4>>, <<0, -1>>, <<3, -4>>, <<4, -3>> >>

BigWords == << "cat", "dog", "w3", "w4", "w5", "w6",
               "w7", "w8", "w9", "w10", "w11", "w12" >>

(***************************************************************************)
(* Floats                                                                  *)
(***************************************************************************)
F(x) == [nan |-> FALSE, val |-> x]
NaN == [nan |-> TRUE, val |-> 0]

FAdd(a, b) == IF a.nan \/ b.nan THEN NaN ELSE F(a.val + b.val)
FSub(a, b) == IF a.nan \/ b.nan THEN NaN ELSE F(a.val - b.val)
FMul(a, b) == IF a.nan \/ b.nan THEN NaN ELSE F(a.val * b.val)

\* IEEE comparisons: every comparison with NaN is false
FGe(a, b) == ~a.nan /\ ~b.nan /\ a.val >= b.val
FGt(a, b) == ~a.nan /\ ~b.nan /\ a.val > b.val

FEq(a, b) == ~a.nan /\ ~b.nan /\ a.val = b.val

\* the order numpy sorts by: NaN after every number
SortsBefore(a, b) == ~a.nan /\ (b.nan \/ a.val < b.val)

ISqrt(m) == CHOOSE r \in 0..m : r * r <= m /\ m < (r + 1) * (r + 1)

RECURSIVE SumSq(_)
SumSq(row) == IF Len(row) = 0 THEN 0 ELSE Head(row) * Head(row) + SumSq(Tail(row))

\* np.linalg.norm of one raw row
RowNorm(row) == ISqrt(SumSq(row))

AllRawRows == Vectors \cup { BigRows[i] : i \in DOMAIN BigRows }

Divides(s) == \A r \in AllRawRows : RowNorm(r) # 0 => s % RowNorm(r) = 0

MaxRowNorm == CHOOSE m \in { RowNorm(r) : r \in AllRawRows } :
                 \A r \in AllRawRows : RowNorm(r) <= m

\* the fixed-point unit: 1.0 is F(Unit)
Unit == CHOOSE s \in 1..(MaxRowNorm * MaxRowNorm) :
           Divides(s) /\ \A t \in 1..(s - 1) : ~Divides(t)

\* float division x / n of a raw entry by a norm, result in units of 1/Unit
FDiv(x, n) == IF n = 0 THEN NaN ELSE F((x * Unit) \div n)

(***************************************************************************)
(* Construction: normalisation and the word -> row index.                  *)
(* Rows are numbered from 1 here; row i is numpy's row i - 1.              *)
(***************************************************************************)
\* norms = np.linalg.norm(english_embeddings, axis=1)
Norms(emb) == [i \in DOMAIN emb |-> RowNorm(emb[i])]

\* NormalizeRow with the division left out
NormalizeRowUndivided(row, n) == [j \in DOMAIN row |-> F(row[j] * Unit)]

\* one row divided by its norm (the broadcast of the reshaped norms column)
NormalizeRow(row, n) == [j \in DOMAIN row |-> FDiv(row[j], n)]

\* normalized_embeddings = english_embeddings / norms.reshape([-1, 1])
NormalizedEmbeddings(emb) ==
    [i \in DOMAIN emb |-> NormalizeRow(emb[i], Norms(emb)[i])]

EmptyIndex == [w \in {} |-> 0]

\* IndexUpTo that keeps the entry a word already has (its first row)
RECURSIVE IndexUpToFirst(_, _)
IndexUpToFirst(words, k) ==
    IF k = 0 THEN EmptyIndex
    ELSE LET prev == IndexUpToFirst(words, k - 1)
         IN  [w \in (DOMAIN prev) \cup {words[k]} |->
                 IF w \in DOMAIN prev THEN prev[w] ELSE k]

\* the dict comprehension, one enumerate step at a time: a later row of the
\* same word overwrites the earlier entry
RECURSIVE IndexUpTo(_, _)
IndexUpTo(words, k) ==
    IF k = 0 THEN EmptyIndex
    ELSE LET prev == IndexUpTo(words, k - 1)
         IN  [w \in (DOMAIN prev) \cup {words[k]} |->
                 IF w = words[k] THEN k ELSE prev[w]]

\* index = {word: i for i, word in enumerate(english_words)}
BuildIndex(words) == IndexUpTo(words, Len(words))

(***************************************************************************)
(* Vector arithmetic                                                       *)
(***************************************************************************)
RECURSIVE DotFrom(_, _, _)
DotFrom(a, b, j) ==
    IF j > Len(a) THEN F(0) ELSE FAdd(FMul(a[j], b[j]), DotFrom(a, b, j + 1))

\* np.dot of two vectors
Dot(a, b) == DotFrom(a, b, 1)

VecSub(a, b) == [j \in DOMAIN a |-> FSub(a[j], b[j])]
VecAdd(a, b) == [j \in DOMAIN a |-> FAdd(a[j], b[j])]
VecScale(k, a) == [j \in DOMAIN a |-> FMul(F(k), a[j])]

(***************************************************************************)
(* Outcomes of a call: what it returned, or the exception it raised        *)
(***************************************************************************)
NoVec == <<>>

NoResult == [status |-> "none", key |-> "", words |-> <<>>, rows |-> <<>>,
             score |-> F(0), x |-> NoVec, count |-> 0, y |-> 0]

KeyError(w) == [NoResult EXCEPT !.status = "KeyError", !.key = w]
StopIteration == [NoResult EXCEPT !.status = "StopIteration"]
ValueError == [NoResult EXCEPT !.status = "ValueError"]

NoCall == [op |-> "none", ws |-> <<>>, v |-> NoVec, n |-> 0, label |-> "",
           out |-> NoResult]

(***************************************************************************)
(* The functions of the notebook.  They read the globals english_words,    *)
(* normalized_embeddings and index.                                        *)
(***************************************************************************)
\* index[w] raises KeyError exactly when w is no key of the dict
Has(w) == w \in DOMAIN index

\* normalized_embeddings[index[w], :]
Embedding(w) == normalized_embeddings[index[w]]

\* the all-zero vector of the embedding dimension
ZeroVector == [j \in DOMAIN BigRows[1] |-> F(0)]

\* similarity_score with index.get and a default row for a missing word
similarity_score_default(w1, w2) ==
    [NoResult EXCEPT !.status = "ok",
                     !.score = Dot(IF Has(w1) THEN Embedding(w1) ELSE ZeroVector,
                                   IF Has(w2) THEN Embedding(w2) ELSE ZeroVector)]

\* def similarity_score(w1, w2): index[w1] is evaluated before index[w2]
similarity_score(w1, w2) ==
    IF ~Has(w1) THEN KeyError(w1)
    ELSE IF ~Has(w2) THEN KeyError(w2)
    ELSE [NoResult EXCEPT !.status = "ok",
                          !.score = Dot(Embedding(w1), Embedding(w2))]

\* AllScores with every score clipped to the range [-1, 1] of a cosine
AllScoresClipped(v) ==
    [i \in DOMAIN normalized_embeddings |->
        LET d == Dot(normalized_embeddings[i], v)
        IN  IF d.nan THEN d
            ELSE IF d.val > Unit * Unit THEN F(Unit * Unit)
            ELSE IF d.val < 0 - Unit * Unit THEN F(0 - Unit * Unit)
            ELSE d]

\* all_scores = np.dot(normalized_embeddings, v)
AllScores(v) ==
    [i \in DOMAIN normalized_embeddings |-> Dot(normalized_embeddings[i], v)]

\* the rows of S that no other row of S sorts before
Least(scores, S) == { i \in S : \A j \in S : ~SortsBefore(scores[j], scores[i]) }

RECURSIVE ArgsortOf(_, _)
ArgsortOf(scores, S) ==
    IF S = {} THEN { <<>> }
    ELSE UNION { { <<i>> \o t : t \in ArgsortOf(scores, S \ {i}) } :
                 i \in Least(scores, S) }

\* np.argsort(all_scores) with the default kind, which is not stable: ascending,
\* NaN last, and any order among rows that compare equal
Argsort(scores) == ArgsortOf(scores, DOMAIN scores)

\* reversed(...)
Reversed(s) == [i \in 1..Len(s) |-> s[Len(s) + 1 - i]]

\* BestRows without reversed(): the argsort order, worst first
BestRowsAscending(order) == order

\* the rows in the order best_words yields their words
BestRows(order) == Reversed(order)

\* [next(best_words) for _ in range(n)]: the first n rows, or StopIteration
\* when the iterator is exhausted before n words were taken
NextN(best, n) ==
    IF n > Len(best) THEN StopIteration
    ELSE [NoResult EXCEPT !.status = "ok",
                          !.rows = SubSeq(best, 1, n),
                          !.words = [i \in 1..n |-> english_words[best[i]]]]

\* def closest_to_vector(v, n): the set of outcomes the sort allows
closest_to_vector(v, n) ==
    { NextN(BestRows(order), n) : order \in Argsort(AllScores(v)) }

\* def most_similar(w, n)
most_similar(w, n) ==
    IF ~Has(w) THEN { KeyError(w) }
    ELSE closest_to_vector(Embedding(w), n)

\* AnalogyVector with a1 and b1 exchanged
AnalogyVectorSwapped(a1, b1, a2) ==
    VecAdd(VecSub(Embedding(a1), Embedding(b1)), Embedding(a2))

\* b2 = embedding(b1) - embedding(a1) + embedding(a2)
AnalogyVector(a1, b1, a2) ==
    VecAdd(VecSub(Embedding(b1), Embedding(a1)), Embedding(a2))

\* def solve_analogy(a1, b1, a2): index[b1], index[a1], index[a2] in this order
solve_analogy(a1, b1, a2) ==
    IF ~Has(b1) THEN { KeyError(b1) }
    ELSE IF ~Has(a1) THEN { KeyError(a1) }
    ELSE IF ~Has(a2) THEN { KeyError(a2) }
    ELSE closest_to_vector(AnalogyVector(a1, b1, a2), AnalogyN)

Digits == << "0", "1", "2", "3", "4", "5", "6", "7", "8", "9" >>

\* int(line[0]) of a digit character
IntOf(ch) == (CHOOSE d \in DOMAIN Digits : Digits[d] = ch) - 1

\* embeddings = [normalized_embeddings[index[w]] for w in words if w in index]
Embeddings(words) ==
    LET known == SelectSeq(words, Has)
    IN  [i \in 1..Len(known) |-> Embedding(known[i])]

RECURSIVE VecSum(_)
VecSum(vs) == IF Len(vs) = 1 THEN vs[1] ELSE VecAdd(vs[1], VecSum(Tail(vs)))

\* def convert_line_to_example(line).  A line is its label character and the
\* words that line[2:].translate(remove_punct).lower().split() leaves.
\* np.vstack of an empty list raises ValueError.  The mean x is kept exact as
\* the sum of the rows (x) over their number (count).
convert_line_to_example(label, words) ==
    LET embeddings == Embeddings(words)
    IN  IF Len(embeddings) = 0 THEN ValueError
        ELSE [NoResult EXCEPT !.status = "ok",
                              !.x = VecSum(embeddings),
                              !.count = Len(embeddings),
                              !.y = IntOf(label)]

(***************************************************************************)
(* Inputs of the calls                                                     *)
(***************************************************************************)
\* words looked up: those of the pool and one that no vocabulary holds
LookupWords == WordPool \cup {"moo"}

\* directions of the unit query vectors, and of the longer ones
QueryRows == { <<1, 0>>, <<0, 1>>, <<-4, 3>> }
LongQueryRows == { <<4, 3>> }

\* query vectors: of length 1, and of length MaxK
QueryPool ==
    { NormalizeRow(r, RowNorm(r)) : r \in QueryRows }
        \cup { VecScale(MaxK, NormalizeRow(r, RowNorm(r))) : r \in LongQueryRows }

Labels == {"0", "1"}

Reviews == UNION { [1..k -> LookupWords] : k \in 0..MaxLineLen }

(***************************************************************************)
(* The state machine: the cells that build the globals run once, in order, *)
(* then the functions are called in any order.                             *)
(***************************************************************************)
Rotate(s, r) == [i \in 1..Len(s) |-> s[((i - 1 + r) % Len(s)) + 1]]

Min(a, b) == IF a <= b THEN a ELSE b

\* l and acc before the first train step: no such names
Undefined == [defined |-> FALSE, epoch |-> 0, batch |-> 0]

NothingPrinted == [happened |-> FALSE, epoch |-> 0, from |-> Undefined]

\* the training cells have not run
NoTraining ==
    /\ dataset = <<>>
    /\ train = <<>>
    /\ test = <<>>
    /\ epoch = 0
    /\ batch = 0
    /\ steps = 0
    /\ fed = <<>>
    /\ last = Undefined
    /\ printed = NothingPrinted

\* the vocabulary is given as restricted to English; the file it came from
\* is not kept
NoSource ==
    /\ all_words = <<>>
    /\ all_embeddings = <<>>

Loaded ==
    /\ normalized_embeddings = <<>>
    /\ index = EmptyIndex
    /\ pc = "loaded"
    /\ call = NoCall
    /\ NoSource
    /\ NoTraining

\* small vocabularies: every list of at most MaxV words with any rows
Init ==
    /\ english_words \in UNION { [1..k -> WordPool] : k \in 0..MaxV }
    /\ english_embeddings \in [1..Len(english_words) -> Vectors]
    /\ Loaded

\* large vocabularies: AnalogyN rows, one fewer, or up to MaxExtra more
InitBig ==
    /\ \E r \in 0..(Len(BigRows) - 1) :
       \E len \in (AnalogyN - 1)..Min(AnalogyN + MaxExtra, Len(BigRows)) :
          /\ english_words = SubSeq(Rotate(BigWords, r), 1, len)
          /\ english_embeddings = SubSeq(Rotate(BigRows, r), 1, len)
    /\ Loaded

Normalize ==
    /\ pc = "loaded"
    /\ normalized_embeddings' = NormalizedEmbeddings(english_embeddings)
    /\ pc' = "normalized"
    /\ UNCHANGED <<english_words, english_embeddings, index, call, source, training>>

MakeIndex ==
    /\ pc = "normalized"
    /\ index' = BuildIndex(english_words)
    /\ pc' = "ready"
    /\ UNCHANGED <<english_words, english_embeddings, normalized_embeddings, call>>
    /\ UNCHANGED <<source, training>>

\* Returns where the lookups take the words out of the dict (index.pop(w))
ReturnsPopping(c) ==
    /\ call' = c
    /\ pc' = "returned"
    /\ index' = [w \in (DOMAIN index) \ { c.ws[i] : i \in DOMAIN c.ws } |-> index[w]]
    /\ UNCHANGED <<english_words, english_embeddings, normalized_embeddings>>
    /\ UNCHANGED <<source, training>>

Returns(c) ==
    /\ call' = c
    /\ pc' = "returned"
    /\ UNCHANGED <<english_words, english_embeddings, normalized_embeddings, index>>
    /\ UNCHANGED <<source, training>>

CallSimilarityScore ==
    /\ pc = "ready"
    /\ \E w1 \in LookupWords, w2 \in LookupWords :
        Returns([NoCall EXCEPT !.op = "similarity_score", !.ws = <<w1, w2>>,
                               !.out = similarity_score(w1, w2)])

CallClosestToVector ==
    /\ pc = "ready"
    /\ \E v \in QueryPool, n \in 0..(Len(english_words) + 1) :
       \E out \in closest_to_vector(v, n) :
          Returns([NoCall EXCEPT !.op = "closest_to_vector", !.v = v,
                               !.n = n, !.out = out])

CallMostSimilar ==
    /\ pc = "ready"
    /\ \E w \in LookupWords, n \in 0..(Len(english_words) + 1) :
       \E out \in most_similar(w, n) :
          Returns([NoCall EXCEPT !.op = "most_similar", !.ws = <<w>>,
                               !.n = n, !.out = out])

CallSolveAnalogy ==
    /\ pc = "ready"
    /\ \E a1 \in LookupWords, b1 \in LookupWords, a2 \in LookupWords :
       \E out \in solve_analogy(a1, b1, a2) :
          Returns([NoCall EXCEPT !.op = "solve_analogy", !.ws = <<a1, b1, a2>>,
                               !.out = out])

CallConvertLine ==
    /\ pc = "ready"
    /\ \E label \in Labels, words \in Reviews :
        Returns([NoCall EXCEPT !.op = "convert_line_to_example", !.ws = words,
                               !.label = label,
                               !.out = convert_line_to_example(label, words)])

\* the cell has printed its result; the next cell may run
NextCell ==
    /\ pc = "returned"
    /\ pc' = "ready"
    /\ call' = NoCall
    /\ UNCHANGED <<english_words, english_embeddings, normalized_embeddings, index>>
    /\ UNCHANGED <<source, training>>

Next ==
    \/ Normalize
    \/ MakeIndex
    \/ CallSimilarityScore
    \/ CallClosestToVector
    \/ CallMostSimilar
    \/ CallSolveAnalogy
    \/ CallConvertLine
    \/ NextCell

Spec == Init /\ [][Next]_vars

SpecBig == InitBig /\ [][Next]_vars

(***************************************************************************)
(* The sentiment training cells.  An example is known by the number of the *)
(* line it was converted from; the network, its loss and its accuracy are  *)
(* not modelled, only which examples are fed to which train step.          *)
(***************************************************************************)
\* most hundreds of examples in a dataset
MaxHundreds == 4

batch_size == 100

\* for epoch in range(250)
Epochs == 250

\* if epoch % 10 == 0
PrintEvery == 10

\* examples beyond the last full hundred
Remainders == {0, 50, 99}

DatasetSizes == { batch_size * h + r : h \in 0..MaxHundreds, r \in Remainders }

\* s[lo:hi] of Python, for 0 <= lo and 0 <= hi
Slice(s, lo, hi) ==
    IF lo >= Min(hi, Len(s)) THEN <<>> ELSE SubSeq(s, lo + 1, Min(hi, Len(s)))

\* random.shuffle(s): the orders taken into account are s itself and s reversed
Shuffles(s) == { s, Reversed(s) }

\* total_batches = len(dataset) // batch_size
total_batches == Len(dataset) \div batch_size

\* train_batches read as 3 * (total_batches // 4)
train_batches_misgrouped == 3 * (total_batches \div 4)

\* train_batches = 3*total_batches // 4
train_batches == (3 * total_batches) \div 4

\* Batch one example short: train[b*batch_size : (b+1)*batch_size - 1]
BatchShort(b) == Slice(train, b * batch_size, (b + 1) * batch_size - 1)

\* data = train[batch*batch_size:(batch+1)*batch_size]
Batch(b) == Slice(train, b * batch_size, (b + 1) * batch_size)

\* the dataset is built: one example per line of the file
InitTrain ==
    /\ \E n \in DatasetSizes : dataset = [i \in 1..n |-> i]
    /\ train = <<>>
    /\ test = <<>>
    /\ epoch = 0
    /\ batch = 0
    /\ steps = 0
    /\ fed = <<>>
    /\ last = Undefined
    /\ printed = NothingPrinted
    /\ pc = "converted"
    /\ english_words = <<>>
    /\ english_embeddings = <<>>
    /\ normalized_embeddings = <<>>
    /\ index = EmptyIndex
    /\ call = NoCall
    /\ NoSource

Globals == <<english_words, english_embeddings, normalized_embeddings, index,
             call, source>>

\* random.shuffle(dataset) and the train/test split
SplitCell ==
    /\ pc = "converted"
    /\ \E d \in Shuffles(dataset) :
          /\ dataset' = d
          /\ train' = Slice(d, 0, train_batches * batch_size)
          /\ test' = Slice(d, train_batches * batch_size, Len(d))
    /\ pc' = "train"
    /\ UNCHANGED <<epoch, batch, steps, fed, last, printed, Globals>>

\* one pass of the inner loop: sess.run of train_step on one batch binds l, acc
TrainStep ==
    /\ pc = "train"
    /\ batch < train_batches
    /\ fed' = Append(fed, Batch(batch))
    /\ last' = [defined |-> TRUE, epoch |-> epoch, batch |-> batch]
    /\ steps' = steps + 1
    /\ batch' = batch + 1
    /\ UNCHANGED <<pc, dataset, train, test, epoch, printed, Globals>>

\* the inner loop is over; every PrintEvery-th epoch l and acc are printed, a
\* NameError when no train step has bound them (a kernel that runs the
\* notebook from the top)
PrintProgress ==
    /\ pc = "train"
    /\ batch = train_batches
    /\ IF epoch % PrintEvery = 0
          THEN IF last.defined
                  THEN /\ printed' = [happened |-> TRUE, epoch |-> epoch,
                                      from |-> last]
                       /\ pc' = "shuffle"
                  ELSE /\ pc' = "NameError"
                       /\ UNCHANGED printed
          ELSE /\ pc' = "shuffle"
               /\ UNCHANGED printed
    /\ UNCHANGED <<dataset, train, test, epoch, batch, steps, fed, last, Globals>>

\* random.shuffle(train), then the next epoch or the end of the loop
ShuffleTrain ==
    /\ pc = "shuffle"
    /\ train' \in Shuffles(train)
    /\ epoch' = epoch + 1
    /\ batch' = 0
    /\ fed' = <<>>
    /\ pc' = IF epoch + 1 < Epochs THEN "train" ELSE "evaluate"
    /\ UNCHANGED <<dataset, test, steps, last, printed, Globals>>

\* acc = sess.run(accuracy, ...) on the test set
EvaluateTest ==
    /\ pc = "evaluate"
    /\ pc' = "done"
    /\ UNCHANGED <<training, Globals>>

NextTrain ==
    \/ SplitCell
    \/ TrainStep
    \/ PrintProgress
    \/ ShuffleTrain
    \/ EvaluateTest

SpecTrain == InitTrain /\ [][NextTrain]_vars

(***************************************************************************)
(* The restriction of the multilingual vocabulary to English.  A word is   *)
(* the tuple of its characters, so that startswith and word[6:] are        *)
(* computed and not assumed.                                               *)
(***************************************************************************)
\* most words in the file of embeddings
MaxSource == 3

\* '/c/en/'
EnglishPrefix == <<"/", "c", "/", "e", "n", "/">>

\* '/c/e', a prefix shared with other languages
LoosePrefix == <<"/", "c", "/", "e">>

\* word.startswith(prefix)
StartsWith(word, prefix) ==
    /\ Len(word) >= Len(prefix)
    /\ SubSeq(word, 1, Len(prefix)) = prefix

IsEnglish(word) == StartsWith(word, EnglishPrefix)

\* words of the file: /c/en/cat, /c/en/dog, /c/es/cat, /c/en/ and /c/en
SourceWords ==
    { EnglishPrefix \o <<"c", "a", "t">>,
      EnglishPrefix \o <<"d", "o", "g">>,
      <<"/", "c", "/", "e", "s", "/", "c", "a", "t">>,
      EnglishPrefix,
      <<"/", "c", "/", "e", "n">> }

\* [word[6:] for word in all_words if word.startswith('/c/en/')]
EnglishWords(words) ==
    LET kept == SelectSeq(words, IsEnglish)
    IN  [k \in 1..Len(kept) |-> Slice(kept[k], 6, Len(kept[k]))]

\* the positions of the words that start with '/c/e'
RECURSIVE EnglishWordIndicesLoose(_)
EnglishWordIndicesLoose(words) ==
    IF Len(words) = 0 THEN <<>>
    ELSE LET before == EnglishWordIndicesLoose(SubSeq(words, 1, Len(words) - 1))
         IN  IF StartsWith(words[Len(words)], LoosePrefix)
                THEN Append(before, Len(words))
                ELSE before

\* [i for i, word in enumerate(all_words) if word.startswith('/c/en/')],
\* positions counted from 1
RECURSIVE EnglishWordIndices(_)
EnglishWordIndices(words) ==
    IF Len(words) = 0 THEN <<>>
    ELSE LET before == EnglishWordIndices(SubSeq(words, 1, Len(words) - 1))
         IN  IF IsEnglish(words[Len(words)])
                THEN Append(before, Len(words))
                ELSE before

\* all_embeddings[english_word_indices]
EnglishEmbeddings(words, emb) ==
    LET english_word_indices == EnglishWordIndices(words)
    IN  [k \in 1..Len(english_word_indices) |-> emb[english_word_indices[k]]]

\* the file of embeddings is read: at most MaxSource words with any rows
InitEnglish ==
    /\ all_words \in UNION { [1..k -> SourceWords] : k \in 0..MaxSource }
    /\ all_embeddings \in [1..Len(all_words) -> Vectors]
    /\ english_words = <<>>
    /\ english_embeddings = <<>>
    /\ normalized_embeddings = <<>>
    /\ index = EmptyIndex
    /\ pc = "read"
    /\ call = NoCall
    /\ NoTraining

RestrictEnglish ==
    /\ pc = "read"
    /\ english_words' = EnglishWords(all_words)
    /\ english_embeddings' = EnglishEmbeddings(all_words, all_embeddings)
    /\ pc' = "loaded"
    /\ UNCHANGED <<normalized_embeddings, index, call, source, training>>

NextEnglish ==
    \/ RestrictEnglish
    \/ Normalize
    \/ MakeIndex

SpecEnglish == InitEnglish /\ [][NextEnglish]_vars

(***************************************************************************)
(* Properties                                                              *)
(***************************************************************************)
One == F(Unit * Unit)

Built == pc \in {"ready", "returned"}

V == Len(english_words)

Vocabulary == { english_words[i] : i \in DOMAIN english_words }

IsZeroRow(i) == RowNorm(english_embeddings[i]) = 0

Distinct(rows) ==
    \A i \in DOMAIN rows : \A j \in DOMAIN rows : i # j => rows[i] # rows[j]

Returned(rows) == { rows[i] : i \in DOMAIN rows }

\* the words of a result are those of its rows
WordsOf(out) ==
    /\ Len(out.words) = Len(out.rows)
    /\ \A i \in DOMAIN out.rows : out.words[i] = english_words[out.rows[i]]

\* C1: for every query and every n with 0 <= n <= V, closest_to_vector(v, n)
\* returns exactly n words of n distinct rows, their scores against the query
\* are non-increasing along the list, and no row left out scores strictly
\* higher than a returned row.
C1_TopNRanked ==
    (call.op = "closest_to_vector" /\ call.n <= V) =>
        LET out == call.out
            s == AllScores(call.v)
        IN  /\ out.status = "ok"
            /\ Len(out.words) = call.n
            /\ WordsOf(out)
            /\ Distinct(out.rows)
            /\ \A i \in 1..(call.n - 1) : FGe(s[out.rows[i]], s[out.rows[i + 1]])
            /\ \A j \in (1..V) \ Returned(out.rows) :
               \A i \in 1..call.n : ~FGt(s[j], s[out.rows[i]])

\* C2: closest_to_vector(v, n) with n greater than the vocabulary size V is
\* clamped to V: it returns all V words ranked by score and signals no error.
C2_ClampsN ==
    (call.op = "closest_to_vector" /\ call.n > V) =>
        /\ call.out.status = "ok"
        /\ Len(call.out.words) = V
        /\ WordsOf(call.out)
        /\ Distinct(call.out.rows)

\* C3: rows of equal score against the query are listed in original vocabulary
\* order: of two returned rows i < j with score(i) = score(j), the word of row
\* i comes before the word of row j.
C3_StableTies ==
    (call.op = "closest_to_vector" /\ call.out.status = "ok") =>
        LET rows == call.out.rows
            s == AllScores(call.v)
        IN  \A a \in DOMAIN rows : \A b \in DOMAIN rows :
                (/\ rows[a] < rows[b]
                 /\ ~s[rows[a]].nan
                 /\ s[rows[a]] = s[rows[b]]) => a < b

\* C4: normalising a matrix with an all-zero row leaves that row the zero
\* vector and produces no NaN entry and no error; every other row is divided
\* by its L2 norm.
C4_ZeroRowStaysZero ==
    pc # "loaded" =>
        /\ DOMAIN normalized_embeddings = DOMAIN english_embeddings
        /\ \A i \in DOMAIN normalized_embeddings :
           \A j \in DOMAIN normalized_embeddings[i] :
              /\ ~normalized_embeddings[i][j].nan
              /\ IsZeroRow(i) => normalized_embeddings[i][j] = F(0)
              /\ normalized_embeddings[i][j].val * RowNorm(english_embeddings[i])
                    = english_embeddings[i][j] * Unit

\* the words a call looked up
LookedUp == { call.ws[i] : i \in DOMAIN call.ws }

\* C5: similarity_score, most_similar and solve_analogy fail with the "word not
\* found" error (KeyError), returning no result, whenever one of their word
\* arguments is absent from the vocabulary; no default vector stands in for it.
C5_AbsentWordRaises ==
    (/\ call.op \in {"similarity_score", "most_similar", "solve_analogy"}
     /\ LookedUp \ Vocabulary # {}) =>
        /\ call.out.status = "KeyError"
        /\ call.out.key \in LookedUp \ Vocabulary
        /\ call.out = KeyError(call.out.key)

C5_Witness ==
    /\ call.op = "solve_analogy"
    /\ V > 0
    /\ call.out.status = "KeyError"
    /\ Cardinality(LookedUp \ Vocabulary) = 1

\* C6: convert_line_to_example ignores the words of the review that are not in
\* the index and returns an example without raising an error for every line,
\* also for a line none of whose words is in the vocabulary.
C6_ConvertNeverRaises ==
    call.op = "convert_line_to_example" =>
        /\ call.out.status = "ok"
        /\ call.out.count = Len(SelectSeq(call.ws, Has))

ScoreAgainst(w, i) == Dot(normalized_embeddings[i], Embedding(w))

\* C8: for every word w of the vocabulary whose self-similarity is the unique
\* maximum among all rows' scores against embedding(w), most_similar(w, 1)
\* returns the one-element list [w].
C8_SelfIsNearest ==
    (/\ call.op = "most_similar"
     /\ call.n = 1
     /\ call.ws[1] \in Vocabulary
     /\ \A j \in (1..V) \ {index[call.ws[1]]} :
           FGt(ScoreAgainst(call.ws[1], index[call.ws[1]]),
               ScoreAgainst(call.ws[1], j))) =>
        (call.out.status = "ok" /\ call.out.words = <<call.ws[1]>>)

C8_Witness ==
    /\ call.op = "most_similar"
    /\ call.n = 1
    /\ V = 3
    /\ call.ws[1] \in Vocabulary
    /\ index[call.ws[1]] = 2
    /\ \A j \in (1..V) \ {2} :
           FGt(ScoreAgainst(call.ws[1], 2), ScoreAgainst(call.ws[1], j))
    /\ call.out.words = <<call.ws[1]>>

\* embedding(b) - embedding(a) + embedding(c), entry by entry
PlainArithmetic(a, b, c) ==
    [j \in DOMAIN Embedding(b) |->
        FAdd(FSub(Embedding(b)[j], Embedding(a)[j]), Embedding(c)[j])]

\* C9: solve_analogy(a, b, c) returns exactly
\* closest_to_vector(embedding(b) - embedding(a) + embedding(c), 10): the query
\* is the plain arithmetic of the three rows, it is not renormalised, and the
\* words a, b, c are not filtered out of the returned list.
C9_AnalogyIsTopN ==
    (/\ call.op = "solve_analogy"
     /\ LookedUp \subseteq Vocabulary) =>
        /\ call.out \in closest_to_vector(
               PlainArithmetic(call.ws[1], call.ws[2], call.ws[3]), AnalogyN)
        /\ call.out.status = "ok" =>
              /\ Len(call.out.words) = AnalogyN
              /\ Returned(call.out.rows) \subseteq 1..V

C9_Witness ==
    /\ call.op = "solve_analogy"
    /\ call.out.status = "ok"
    /\ call.ws[1] # call.ws[2]
    /\ Dot(PlainArithmetic(call.ws[1], call.ws[2], call.ws[3]),
           PlainArithmetic(call.ws[1], call.ws[2], call.ws[3])) # One
    /\ LookedUp \subseteq Returned(call.out.words)

\* C10: ranking is invariant under uniform positive scaling of the query: for
\* every query q, every k > 0 and every n <= V, closest_to_vector(k*q, n)
\* returns the same ordered list of words as closest_to_vector(q, n).
C10_ScaleInvariant ==
    (call.op = "closest_to_vector" /\ call.n <= V) =>
        \A k \in 1..MaxK :
            closest_to_vector(VecScale(k, call.v), call.n)
                = closest_to_vector(call.v, call.n)

C10_Witness ==
    /\ call.op = "closest_to_vector"
    /\ call.n = 2
    /\ V = 2
    /\ call.out.status = "ok"
    /\ FGt(Dot(call.v, call.v), One)
    /\ Cardinality(closest_to_vector(call.v, call.n)) = 1
    /\ \A i \in 1..V : ~IsZeroRow(i)

\* C11: the index is injective (distinct words map to distinct rows) and
\* consistent (the word stored at row index[w] is w); a word that occurs more
\* than once in the vocabulary has a single entry, the row of its last
\* occurrence.
C11_IndexLastOccurrence ==
    Built =>
        /\ DOMAIN index = Vocabulary
        /\ \A w \in DOMAIN index :
              /\ index[w] \in 1..V
              /\ english_words[index[w]] = w
              /\ \A i \in 1..V : english_words[i] = w => i <= index[w]
        /\ \A w1 \in DOMAIN index : \A w2 \in DOMAIN index :
              w1 # w2 => index[w1] # index[w2]

C11_Witness ==
    /\ Built
    /\ V = 3
    /\ english_words[1] = english_words[2]
    /\ english_words[3] # english_words[1]
    /\ index[english_words[1]] = 2
    /\ Cardinality(DOMAIN index) = 2

\* C12: after construction and normalisation the vocabulary, the embedding
\* matrix and the index never change: no call of similarity_score,
\* closest_to_vector, most_similar, solve_analogy or convert_line_to_example,
\* failing or not, changes any of them.
C12_GlobalsImmutable ==
    [][Built =>
          /\ english_words' = english_words
          /\ english_embeddings' = english_embeddings
          /\ normalized_embeddings' = normalized_embeddings
          /\ index' = index]_vars

C12_Witness ==
    /\ pc = "returned"
    /\ call.op = "most_similar"
    /\ call.out.status = "StopIteration"
    /\ V = 2
    /\ index = BuildIndex(english_words)
    /\ normalized_embeddings = NormalizedEmbeddings(english_embeddings)

\* C13: score is symmetric: similarity_score(w1, w2) = similarity_score(w2, w1)
\* for all words w1, w2 of the index.
C13_Symmetric ==
    (/\ call.op = "similarity_score"
     /\ call.ws[1] \in Vocabulary
     /\ call.ws[2] \in Vocabulary) =>
        /\ call.out.status = "ok"
        /\ similarity_score(call.ws[2], call.ws[1]).status = "ok"
        /\ FEq(call.out.score, similarity_score(call.ws[2], call.ws[1]).score)

SplitDone == pc \in {"train", "shuffle", "evaluate", "done", "NameError"}

Range(q) == { q[i] : i \in DOMAIN q }

\* train and test are disjoint and together hold every example exactly once
Partitions ==
    /\ Range(train) \cap Range(test) = {}
    /\ Range(train) \cup Range(test) = Range(dataset)
    /\ Len(train) + Len(test) = Len(dataset)
    /\ Cardinality(Range(dataset)) = Len(dataset)

\* C14 as stated: for a dataset of any size train and test partition it,
\* len(train) is a multiple of batch_size, a quarter of the dataset is used for
\* testing and three quarters for training.
C14_QuarterSplit ==
    SplitDone =>
        /\ Partitions
        /\ Len(train) % batch_size = 0
        /\ 4 * Len(test) = Len(dataset)
        /\ 4 * Len(train) = 3 * Len(dataset)

\* C14 as amended: train and test partition the dataset; len(train) is
\* batch_size * (3 * (len(dataset) // batch_size) // 4), a multiple of
\* batch_size that is at most three quarters of the dataset and fewer than
\* 1.5 * batch_size examples short of it, so the test set holds at least a
\* quarter; the shares are exactly 3/4 and 1/4 only when len(dataset) is a
\* multiple of 4 * batch_size.
C14_WholeBatchSplit ==
    SplitDone =>
        /\ Partitions
        /\ Len(train) % batch_size = 0
        /\ Len(train) = batch_size * ((3 * (Len(dataset) \div batch_size)) \div 4)
        /\ 4 * Len(train) <= 3 * Len(dataset)
        /\ 4 * Len(train) > 3 * Len(dataset) - 6 * batch_size
        /\ 4 * Len(test) >= Len(dataset)
        /\ (4 * Len(train) = 3 * Len(dataset)) <=> (Len(dataset) % (4 * batch_size) = 0)

C14_Witness ==
    /\ pc = "train"
    /\ epoch = 0
    /\ Len(dataset) = 4 * batch_size + 50
    /\ dataset[1] # 1
    /\ Len(train) = 3 * batch_size
    /\ Len(test) = batch_size + 50

RECURSIVE Flatten(_)
Flatten(qs) == IF Len(qs) = 0 THEN <<>> ELSE Head(qs) \o Flatten(Tail(qs))

\* C15: in each of the 250 epochs the batches partition the training list:
\* every training example is fed to exactly one train step of the epoch and
\* every batch has exactly batch_size examples, also after the shuffle of
\* train that ends each epoch; the loop ends after exactly
\* 250 * train_batches train steps and the test set is evaluated only after
\* the last of them.
C15_BatchesPartitionTrain ==
    /\ pc = "train" =>
          /\ Len(fed) = batch
          /\ steps = epoch * train_batches + batch
          /\ epoch < Epochs
          /\ \A b \in DOMAIN fed : Len(fed[b]) = batch_size
          /\ Cardinality(Range(Flatten(fed))) = batch * batch_size
          /\ Range(Flatten(fed)) \subseteq Range(train)
          /\ batch = train_batches => Range(Flatten(fed)) = Range(train)
    /\ steps <= Epochs * train_batches
    /\ pc = "NameError" => steps = Epochs * train_batches
    /\ pc \in {"evaluate", "done"} =>
          /\ epoch = Epochs
          /\ steps = Epochs * train_batches

C15_Witness ==
    /\ pc = "done"
    /\ train_batches = 3
    /\ steps = 3 * Epochs
    /\ train # Slice(dataset, 0, train_batches * batch_size)

\* C16: whenever the training loop prints its progress line, at least one
\* train step has already run in that epoch, so the loss and accuracy it
\* prints are defined and are those of the last batch of that epoch; this
\* holds for every dataset size, also when train_batches is 0.
C16_PrintDefined ==
    /\ pc # "NameError"
    /\ printed.happened =>
          /\ printed.from.defined
          /\ printed.from.epoch = printed.epoch
          /\ printed.from.batch = train_batches - 1

Restricted == pc \in {"loaded", "normalized", "ready"}

\* the positions of all_words whose word is '/c/en/' followed by anything
EnglishPositions ==
    { i \in DOMAIN all_words :
        /\ Len(all_words[i]) >= 6
        /\ all_words[i][1] = "/" /\ all_words[i][2] = "c" /\ all_words[i][3] = "/"
        /\ all_words[i][4] = "e" /\ all_words[i][5] = "n" /\ all_words[i][6] = "/" }

\* the position in all_words of its k-th English word
KthEnglish(k) ==
    CHOOSE i \in EnglishPositions :
        Cardinality({ j \in EnglishPositions : j <= i }) = k

\* C17: english_words and english_embeddings are aligned: they have the same
\* length, english_words[k] is the k-th word of all_words that starts with
\* '/c/en/' with that 6-character prefix removed, english_embeddings[k] is the
\* row of all_embeddings at the same original position, and no word without
\* the prefix contributes an entry.
C17_EnglishAligned ==
    Restricted =>
        /\ Len(english_words) = Len(english_embeddings)
        /\ Len(english_words) = Cardinality(EnglishPositions)
        /\ \A k \in DOMAIN english_words :
              /\ <<"/", "c", "/", "e", "n", "/">> \o english_words[k]
                    = all_words[KthEnglish(k)]
              /\ english_embeddings[k] = all_embeddings[KthEnglish(k)]

C17_Witness ==
    /\ pc = "ready"
    /\ Len(all_words) = 3
    /\ all_words[1] = <<"/", "c", "/", "e", "s", "/", "c", "a", "t">>
    /\ all_words[2] = <<"/", "c", "/", "e", "n", "/">>
    /\ all_words[3] = <<"/", "c", "/", "e", "n", "/", "c", "a", "t">>
    /\ all_embeddings = << <<1, 0>>, <<0, 0>>, <<4, 3>> >>
    /\ english_words = << <<>>, <<"c", "a", "t">> >>
    /\ english_embeddings = << <<0, 0>>, <<4, 3>> >>

====
